---- MODULE Spec2Model ----
(***************************************************************************)
(* A model of knights_tour.py: the randomized Warnsdorff tour generator    *)
(* generate_knights_tour_nxn and the state of the KnightTourGUI /          *)
(* BoardWidget presentation layer that consumes its result.                *)
(*                                                                         *)
(* Specifications:                                                         *)
(*   Spec       one direct call of generate_knights_tour_nxn with inputs   *)
(*              drawn from bounded sets; every random.shuffle outcome is   *)
(*              chosen nondeterministically among NumDraws draw vectors.   *)
(*   SeededSpec the same call made twice over, the random source seeded    *)
(*              with the same seed before each call.                       *)
(*   GuiSpec    the KnightTourGUI window: Start Tour (which calls the      *)
(*              generator), the animation timer, Play, Pause and Reset.    *)
(*   GuiFairSpec  GuiSpec with weak fairness of the timer's tick.          *)
(***************************************************************************)
EXTENDS Integers, Sequences, FiniteSets, TLC

VARIABLES
    \* ---- generate_knights_tour_nxn: arguments, locals, control point
    pc,            \* "idle" | "attempt" (line 27) | "move" (line 32) | "returned" | "raised"
    start_x, start_y, board_size, max_attempts,
    KNIGHT_MOVES,  \* the local list of line 14, shuffled in place at line 33
    attempt,       \* number of iterations of the for-attempt loop started so far
    board,         \* board[y][x], rows and columns indexed from 0
    x, y,          \* current square
    move_no,       \* the inner loop's next move number
    result,        \* the value returned to the caller
    \* ---- history of the call (not program state)
    dead_ends,     \* attempts of this call that ended at the break of line 46
    shuffled,      \* TRUE once random.shuffle has run in this call
    trace,         \* the moves placed in this call, <<attempt, move_no, x, y>> (kept when run > 0)
    \* ---- the random source and the caller that replays a call
    rng,           \* state of the seeded random source (not used by Spec)
    run,           \* 0: a single call; 1, 2: first and second call of the replay
    seed,          \* the seed given before each call of the replay
    first,         \* what the first call of the replay returned and placed
    \* ---- KnightTourGUI (self.*) and its BoardWidget
    gui_pc,        \* "off" (no window) | "idle" (event loop) | "start_tour" (inside line 190)
    self_board_size, square_size, self_board, move_positions,
    current_move_index, is_paused,
    timer_active,  \* self.timer.isActive()
    board_widget,  \* self.board_widget: NoWidget or a BoardWidget record
    message_box,   \* title of the QMessageBox shown by the last handler, "" if none
    gen_calls      \* number of calls of generate_knights_tour_nxn made by the window

genvars == <<pc, start_x, start_y, board_size, max_attempts, KNIGHT_MOVES,
             attempt, board, x, y, move_no, result, dead_ends, shuffled, trace>>

replayvars == <<run, seed, first>>

guivars == <<gui_pc, self_board_size, square_size, self_board, move_positions,
             current_move_index, is_paused, timer_active, board_widget,
             message_box, gen_calls>>

vars == <<genvars, rng, replayvars, guivars>>

----------------------------------------------------------------------------
(* Bounds of the model *)

MaxSize == 5          \* direct calls use board_size in 1..MaxSize
MaxStart == 1         \* in-range starts tried have both coordinates <= MaxStart
MaxAttempts == 2      \* direct calls use max_attempts 0 and MaxAttempts
NumDraws == 2         \* shuffle outcomes tried at every move: ShuffleDraws[1..NumDraws]
NumSeeds == 2         \* seeds tried by SeededSpec and GuiSpec: 0..NumSeeds-1
MaxTours == 1         \* Start Tour clicks with accepted input per behaviour
MaxOverrun == 2       \* ticks modelled once the cursor has reached the sequence's end

----------------------------------------------------------------------------
(* Values *)

UNVISITED == -1

\* Python's None and a returned board, as records of one shape.
None == [kind |-> "None", board |-> <<>>]
BoardValue(b) == [kind |-> "Board", board |-> b]
Pending == [kind |-> "pending", board |-> <<>>]

\* next_move = None at line 35
NoMove == <<>>

\* Mutation of KnightMoves0: one offset mistyped as a (1,1) step.
KnightMovesTypo ==
    << <<-2, -1>>, <<-1, -2>>, <<1, -2>>, <<2, -1>>,
       <<1, 1>>, <<1, 2>>, <<-1, 2>>, <<-2, 1>> >>

\* KNIGHT_MOVES as written at lines 14-15, as <<dx, dy>> pairs
KnightMoves0 ==
    << <<-2, -1>>, <<-1, -2>>, <<1, -2>>, <<2, -1>>,
       <<2, 1>>, <<1, 2>>, <<-1, 2>>, <<-2, 1>> >>

----------------------------------------------------------------------------
(* random.shuffle(KNIGHT_MOVES), line 33: Fisher-Yates.  For i = 7 down to *)
(* 1 (0-based), j = randbelow(i+1) and the elements at i and j are         *)
(* swapped.  js[i] is the draw used at 0-based position i.                 *)

Swap(list, i, j) ==
    [list EXCEPT ![i] = list[j], ![j] = list[i]]

RECURSIVE ShuffleFrom(_, _, _)
ShuffleFrom(list, js, i) ==
    IF i < 1 THEN list
    ELSE ShuffleFrom(Swap(list, i + 1, js[i] + 1), js, i - 1)

Shuffle(list, js) == ShuffleFrom(list, js, Len(list) - 1)

\* Draw vectors <<j_1, ..., j_7>> with j_i in 0..i, the outcomes of the
\* seven randbelow calls of one shuffle that the model tries.
ShuffleDraws ==
    << <<1, 2, 3, 4, 5, 6, 7>>,      \* every element stays
       <<1, 2, 3, 3, 2, 1, 0>>,      \* the list is reversed
       <<0, 2, 2, 4, 4, 6, 6>>,      \* neighbours are exchanged pairwise
       <<1, 0, 1, 4, 5, 4, 5>> >>    \* pairs are exchanged pairwise

----------------------------------------------------------------------------
(* Helpers of generate_knights_tour_nxn *)

\* Mutation of is_valid: the test for an unvisited cell is left out.
is_valid_in_bounds_only(px, py, b) ==
    /\ 0 <= px /\ px < board_size
    /\ 0 <= py /\ py < board_size

\* is_valid, lines 17-18
is_valid(px, py, b) ==
    /\ 0 <= px /\ px < board_size
    /\ 0 <= py /\ py < board_size
    /\ b[py][px] = UNVISITED

\* count_onward_moves, lines 20-25
count_onward_moves(px, py, b, moves) ==
    Cardinality({i \in 1..Len(moves) : is_valid(px + moves[i][1], py + moves[i][2], b)})

\* Mutation of SelectFrom: a candidate of equal degree replaces the one held
\* (deg <= min_deg), so the last candidate of minimal degree wins.
RECURSIVE SelectFromLastWins(_, _, _, _, _, _, _)
SelectFromLastWins(moves, i, px, py, b, min_deg, next_move) ==
    IF i > Len(moves) THEN next_move
    ELSE LET nx == px + moves[i][1]
             ny == py + moves[i][2]
         IN  IF is_valid(nx, ny, b)
             THEN LET deg == count_onward_moves(nx, ny, b, moves)
                  IN  IF deg <= min_deg
                      THEN SelectFromLastWins(moves, i + 1, px, py, b, deg, <<nx, ny>>)
                      ELSE SelectFromLastWins(moves, i + 1, px, py, b, min_deg, next_move)
             ELSE SelectFromLastWins(moves, i + 1, px, py, b, min_deg, next_move)

\* The selection loop of lines 34-43 from the i-th offset on, with the
\* running min_deg and next_move.
RECURSIVE SelectFrom(_, _, _, _, _, _, _)
SelectFrom(moves, i, px, py, b, min_deg, next_move) ==
    IF i > Len(moves) THEN next_move
    ELSE LET nx == px + moves[i][1]
             ny == py + moves[i][2]
         IN  IF is_valid(nx, ny, b)
             THEN LET deg == count_onward_moves(nx, ny, b, moves)
                  IN  IF deg < min_deg
                      THEN SelectFrom(moves, i + 1, px, py, b, deg, <<nx, ny>>)
                      ELSE SelectFrom(moves, i + 1, px, py, b, min_deg, next_move)
             ELSE SelectFrom(moves, i + 1, px, py, b, min_deg, next_move)

SelectMove(moves, px, py, b) == SelectFrom(moves, 1, px, py, b, 9, NoMove)

\* Python's list indexing into a list of length n: an index in -n..-1 counts
\* from the end; any other index outside 0..n-1 raises IndexError.
Indexable(i, n) == -n <= i /\ i < n
PyIndex(i, n) == IF i < 0 THEN i + n ELSE i

\* line 28
FreshBoard(n) == [r \in 0..(n - 1) |-> [c \in 0..(n - 1) |-> UNVISITED]]

\* the move number of the start square, line 30
FirstMove == 1

\* Mutation of MarkStart: the start square is numbered 0.
MarkStartZeroBased(b, n, sx, sy) ==
    [b EXCEPT ![PyIndex(sy, n)][PyIndex(sx, n)] = 0]

\* line 30: board[y][x] = 1 on the fresh board
MarkStart(b, n, sx, sy) ==
    [b EXCEPT ![PyIndex(sy, n)][PyIndex(sx, n)] = FirstMove]

StartIndexable(n, sx, sy) == Indexable(sy, n) /\ Indexable(sx, n)

\* Mutation of InnerRange: the inner loop starts at move 1.
InnerRangeFromOne(n) == [first |-> 1, stop |-> n * n + 1]

\* range(2, board_size * board_size + 1), line 32
InnerRange(n) == [first |-> 2, stop |-> n * n + 1]

----------------------------------------------------------------------------
(* The call *)

\* Mutation of EntryMoves: the list outlives the call (a module-level list).
EntryMovesKept(old) == old

\* Function entry, lines 13-15: the arguments are bound and KNIGHT_MOVES is
\* built anew, whatever order an earlier call left.
EntryMoves(old) == KnightMoves0

Enter(sx, sy, n, m) ==
    /\ start_x' = sx /\ start_y' = sy /\ board_size' = n /\ max_attempts' = m
    /\ KNIGHT_MOVES' = EntryMoves(KNIGHT_MOVES)
    /\ attempt' = 0
    /\ board' = <<>>
    /\ x' = 0 /\ y' = 0 /\ move_no' = 0
    /\ result' = Pending
    /\ dead_ends' = 0
    /\ shuffled' = FALSE
    /\ trace' = <<>>
    /\ pc' = "attempt"

\* The loop conditions: the attempt loop of line 27 and the inner loop of
\* line 32 have an iteration left, or have run to their end.
AttemptLoopRunning == pc = "attempt" /\ attempt < max_attempts
AttemptLoopDone == pc = "attempt" /\ attempt >= max_attempts
InnerLoopRunning == pc = "move" /\ move_no < InnerRange(board_size).stop
InnerLoopDone == pc = "move" /\ move_no >= InnerRange(board_size).stop

\* Mutation of BeginAttempt: the attempt counter is not advanced.
BeginAttemptUncounted ==
    /\ AttemptLoopRunning
    /\ board' = MarkStart(FreshBoard(board_size), board_size, start_x, start_y)
    /\ x' = start_x /\ y' = start_y
    /\ move_no' = InnerRange(board_size).first
    /\ pc' = "move"
    /\ UNCHANGED <<start_x, start_y, board_size, max_attempts, KNIGHT_MOVES,
                   attempt, result, dead_ends, shuffled, trace>>
    /\ UNCHANGED <<rng, replayvars, guivars>>

\* Mutation of BeginAttempt: the board is allocated by the first attempt only
\* and later attempts go on with the board the previous attempt left.
BeginAttemptKeepsBoard ==
    /\ AttemptLoopRunning
    /\ attempt' = attempt + 1
    /\ IF StartIndexable(board_size, start_x, start_y)
       THEN /\ board' = MarkStart(IF board = <<>> THEN FreshBoard(board_size) ELSE board,
                                  board_size, start_x, start_y)
            /\ x' = start_x /\ y' = start_y
            /\ move_no' = InnerRange(board_size).first
            /\ pc' = "move"
       ELSE /\ board' = FreshBoard(board_size)
            /\ x' = start_x /\ y' = start_y
            /\ pc' = "raised"
            /\ UNCHANGED move_no
    /\ UNCHANGED <<start_x, start_y, board_size, max_attempts, KNIGHT_MOVES,
                   result, dead_ends, shuffled, trace>>
    /\ UNCHANGED <<rng, replayvars, guivars>>

\* Lines 27-30: the next iteration of the attempt loop starts.
BeginAttempt ==
    /\ AttemptLoopRunning
    /\ attempt' = attempt + 1
    /\ IF StartIndexable(board_size, start_x, start_y)
       THEN /\ board' = MarkStart(FreshBoard(board_size), board_size, start_x, start_y)
            /\ x' = start_x /\ y' = start_y
            /\ move_no' = InnerRange(board_size).first
            /\ pc' = "move"
       ELSE /\ board' = FreshBoard(board_size)
            /\ x' = start_x /\ y' = start_y
            /\ pc' = "raised"
            /\ UNCHANGED move_no
    /\ UNCHANGED <<start_x, start_y, board_size, max_attempts, KNIGHT_MOVES,
                   result, dead_ends, shuffled, trace>>
    /\ UNCHANGED <<rng, replayvars, guivars>>

\* Mutation of Place: `not next_move` taken to hold for the square (0, 0) too.
PlaceOriginIsFalse(next_move) ==
    IF next_move = NoMove \/ next_move = <<0, 0>>
    THEN /\ pc' = "attempt"
         /\ dead_ends' = dead_ends + 1
         /\ UNCHANGED <<board, x, y, move_no, result, trace>>
    ELSE /\ x' = next_move[1] /\ y' = next_move[2]
         /\ board' = [board EXCEPT ![next_move[2]][next_move[1]] = move_no]
         /\ move_no' = move_no + 1
         /\ trace' = IF run > 0
                      THEN Append(trace, <<attempt, move_no, next_move[1], next_move[2]>>)
                      ELSE trace
         /\ UNCHANGED <<pc, dead_ends, result>>

\* Mutation of Place: the move number is written with the indices exchanged,
\* board[x][y] = move_no.
PlaceTransposed(next_move) ==
    IF next_move = NoMove
    THEN /\ pc' = "attempt"
         /\ dead_ends' = dead_ends + 1
         /\ UNCHANGED <<board, x, y, move_no, result, trace>>
    ELSE /\ x' = next_move[1] /\ y' = next_move[2]
         /\ board' = [board EXCEPT ![next_move[1]][next_move[2]] = move_no]
         /\ move_no' = move_no + 1
         /\ trace' = IF run > 0
                      THEN Append(trace, <<attempt, move_no, next_move[1], next_move[2]>>)
                      ELSE trace
         /\ UNCHANGED <<pc, dead_ends, result>>

\* Mutation of Place: the board is returned when the inner loop is left by
\* its break as well (the return not in the loop's else clause).
PlaceReturnsAfterBreak(next_move) ==
    IF next_move = NoMove
    THEN /\ pc' = "returned"
         /\ result' = BoardValue(board)
         /\ dead_ends' = dead_ends + 1
         /\ UNCHANGED <<board, x, y, move_no, trace>>
    ELSE /\ x' = next_move[1] /\ y' = next_move[2]
         /\ board' = [board EXCEPT ![next_move[2]][next_move[1]] = move_no]
         /\ move_no' = move_no + 1
         /\ trace' = IF run > 0
                      THEN Append(trace, <<attempt, move_no, next_move[1], next_move[2]>>)
                      ELSE trace
         /\ UNCHANGED <<pc, dead_ends, result>>

\* What the body of the inner loop does once next_move is known, lines 45-49.
Place(next_move) ==
    IF next_move = NoMove
    THEN /\ pc' = "attempt"
         /\ dead_ends' = dead_ends + 1
         /\ UNCHANGED <<board, x, y, move_no, result, trace>>
    ELSE /\ x' = next_move[1] /\ y' = next_move[2]
         /\ board' = [board EXCEPT ![next_move[2]][next_move[1]] = move_no]
         /\ move_no' = move_no + 1
         /\ trace' = IF run > 0
                      THEN Append(trace, <<attempt, move_no, next_move[1], next_move[2]>>)
                      ELSE trace
         /\ UNCHANGED <<pc, dead_ends, result>>

\* Lines 32-49: one iteration of the inner loop, with the draws js of its
\* shuffle.
MoveStep(js) ==
    /\ InnerLoopRunning
    /\ KNIGHT_MOVES' = Shuffle(KNIGHT_MOVES, js)
    /\ shuffled' = TRUE
    /\ Place(SelectMove(KNIGHT_MOVES', x, y, board))
    /\ UNCHANGED <<start_x, start_y, board_size, max_attempts, attempt>>
    /\ UNCHANGED <<replayvars, guivars>>

\* Mutation of ReturnBoard: the completed board does not end the call (the
\* else clause falls through to the next attempt).
ReturnBoardKeepsTrying ==
    /\ InnerLoopDone
    /\ pc' = "attempt"
    /\ UNCHANGED <<start_x, start_y, board_size, max_attempts, KNIGHT_MOVES,
                   attempt, board, x, y, move_no, result, dead_ends, shuffled, trace>>
    /\ UNCHANGED <<rng, replayvars, guivars>>

\* Lines 50-51: the inner loop ran to its end, the board is returned.
ReturnBoard ==
    /\ InnerLoopDone
    /\ result' = BoardValue(board)
    /\ pc' = "returned"
    /\ UNCHANGED <<start_x, start_y, board_size, max_attempts, KNIGHT_MOVES,
                   attempt, board, x, y, move_no, dead_ends, shuffled, trace>>
    /\ UNCHANGED <<rng, replayvars, guivars>>

\* Line 52: the attempt loop ran to its end.
ReturnNone ==
    /\ AttemptLoopDone
    /\ result' = None
    /\ pc' = "returned"
    /\ UNCHANGED <<start_x, start_y, board_size, max_attempts, KNIGHT_MOVES,
                   attempt, board, x, y, move_no, dead_ends, shuffled, trace>>
    /\ UNCHANGED <<rng, replayvars, guivars>>

----------------------------------------------------------------------------
(* Spec: one direct call, the shuffles' outcomes chosen freely *)

\* The window before it exists, the random source before it is seeded, and a
\* caller that makes one call only.
NoWidget == [kind |-> "None"]
NoDict == [p \in {} |-> 0]

NoGui ==
    /\ gui_pc = "off"
    /\ self_board_size = 0 /\ square_size = 0
    /\ self_board = BoardValue(<<>>) /\ move_positions = <<>>
    /\ current_move_index = 0 /\ is_paused = FALSE /\ timer_active = FALSE
    /\ board_widget = NoWidget /\ message_box = "" /\ gen_calls = 0

NoReplay == run = 0 /\ seed = 0 /\ first = <<>>

\* Start squares tried for a board of size n, as <<start_x, start_y>>: the
\* squares of the board with coordinates up to MaxStart (for n <= 6 every
\* square is a rotation or reflection of one of them), and two starts off the
\* board: one column to the left of it, and one row below its last row.
Min(a, b) == IF a <= b THEN a ELSE b
ValidStarts(n) == (0..Min(n - 1, MaxStart)) \X (0..Min(n - 1, MaxStart))
InvalidStarts(n) == { <<-1, 0>>, <<0, n>> }
Starts(n) == ValidStarts(n) \cup InvalidStarts(n)

\* Attempt budgets tried: none at all, and the largest of the model.
Budgets == {0, MaxAttempts}

DirectCall(sx, sy, n, m) ==
    /\ start_x = sx /\ start_y = sy /\ board_size = n /\ max_attempts = m
    /\ KNIGHT_MOVES = KnightMoves0
    /\ attempt = 0
    /\ board = <<>>
    /\ x = 0 /\ y = 0 /\ move_no = 0
    /\ result = Pending
    /\ dead_ends = 0
    /\ shuffled = FALSE
    /\ trace = <<>>
    /\ pc = "attempt"

Init ==
    \E n \in 1..MaxSize : \E s \in Starts(n) : \E m \in Budgets :
        DirectCall(s[1], s[2], n, m) /\ rng = 0 /\ NoReplay /\ NoGui

RandomMoveStep ==
    /\ \E d \in 1..NumDraws : MoveStep(ShuffleDraws[d])
    /\ UNCHANGED rng

Next ==
    \/ BeginAttempt
    \/ RandomMoveStep
    \/ ReturnBoard
    \/ ReturnNone

Spec == Init /\ [][Next]_vars

----------------------------------------------------------------------------
(* The seeded random source.  Python's generator is deterministic once     *)
(* seeded; it is modelled by a small linear congruential generator: each   *)
(* randbelow call advances the state once and reduces it to the range.     *)

RngNext(s) == (5 * s + 3) % 64

RECURSIVE RngSteps(_, _)
RngSteps(s, k) == IF k = 0 THEN s ELSE RngSteps(RngNext(s), k - 1)

RngBelow(s, k) == (s \div 4) % k

\* The seven draws of one shuffle from state s: position 7 is drawn first.
RngDraws(s) == [i \in 1..7 |-> RngBelow(RngSteps(s, 8 - i), i + 1)]

SeededMoveStep ==
    /\ MoveStep(RngDraws(rng))
    /\ rng' = RngSteps(rng, 7)

----------------------------------------------------------------------------
(* SeededSpec: random.seed(seed); generate(...); random.seed(seed);        *)
(* generate(...) with the same arguments.                                  *)

SeededInit ==
    \E n \in 1..MaxSize : \E s \in Starts(n) : \E m \in Budgets :
        \E sd \in 0..(NumSeeds - 1) :
            /\ DirectCall(s[1], s[2], n, m)
            /\ rng = sd /\ seed = sd /\ run = 1 /\ first = <<>>
            /\ NoGui

\* The first call has ended: its outcome is kept, the source is seeded again
\* and the second call is entered.
Replay ==
    /\ run = 1
    /\ pc \in {"returned", "raised"}
    /\ first' = [pc |-> pc, result |-> result, trace |-> trace]
    /\ run' = 2
    /\ rng' = seed
    /\ Enter(start_x, start_y, board_size, max_attempts)
    /\ UNCHANGED <<seed, guivars>>

SeededNext ==
    \/ BeginAttempt
    \/ SeededMoveStep
    \/ ReturnBoard
    \/ ReturnNone
    \/ Replay

SeededSpec == SeededInit /\ [][SeededNext]_vars

----------------------------------------------------------------------------
(* BoardWidget *)

\* Optional arguments: <<>> for None, <<v>> for the value v.
Nothing == <<>>
Some(v) == <<v>>

\* dict[key] = value
DictPut(d, key, value) ==
    [p \in (DOMAIN d) \cup {key} |-> IF p = key THEN value ELSE d[p]]

\* BoardWidget.__init__, lines 56-65
NewWidget(size, sq, data) ==
    [kind |-> "BoardWidget", board_size |-> size, square_size |-> sq,
     board_data |-> data, current_pos |-> <<0, 0>>, prev_pos |-> Nothing,
     move_numbers |-> NoDict]

\* Mutation of set_knight_position: the move number is recorded on the square
\* the knight arrives on, not on the one it has left.
set_knight_position_marks_current(w, px, py, prev_x, prev_y, move_number) ==
    IF prev_x # Nothing /\ prev_y # Nothing /\ move_number # Nothing
    THEN [w EXCEPT !.current_pos = <<px, py>>,
                   !.move_numbers = DictPut(@, <<px, py>>, move_number[1])]
    ELSE [w EXCEPT !.current_pos = <<px, py>>]

\* BoardWidget.set_knight_position, lines 67-71
set_knight_position(w, px, py, prev_x, prev_y, move_number) ==
    IF prev_x # Nothing /\ prev_y # Nothing /\ move_number # Nothing
    THEN [w EXCEPT !.current_pos = <<px, py>>,
                   !.move_numbers = DictPut(@, <<prev_x[1], prev_y[1]>>, move_number[1])]
    ELSE [w EXCEPT !.current_pos = <<px, py>>]

----------------------------------------------------------------------------
(* KnightTourGUI *)

DefaultMaxAttempts == 100     \* max_attempts: int = 100, line 13
MinBoardSize == 5             \* line 178

\* `not self.board`, line 192: None and the empty list are false
Truthy(v) == v.kind = "Board" /\ v.board # <<>>

\* line 189
SquareSize(size) ==
    LET a == 480 \div size
        b == IF a < 60 THEN a ELSE 60
    IN  IF b > 30 THEN b ELSE 30

\* Lines 197-202 from the k-th cell of the scan on (row by row, k from 0):
\* a cell holding move_num > 0 stores its <<x, y>> at index move_num - 1
\* (here: position move_num of the 1-based sequence).
\* Mutation of ProjectFrom: the coordinate is stored as (y, x).
RECURSIVE ProjectFromTransposed(_, _, _, _)
ProjectFromTransposed(mp, b, size, k) ==
    IF k >= size * size THEN mp
    ELSE LET cy == k \div size
             cx == k % size
             move_num == b[cy][cx]
         IN  IF move_num > 0
             THEN ProjectFromTransposed([mp EXCEPT ![move_num] = <<cy, cx>>], b, size, k + 1)
             ELSE ProjectFromTransposed(mp, b, size, k + 1)

RECURSIVE ProjectFrom(_, _, _, _)
ProjectFrom(mp, b, size, k) ==
    IF k >= size * size THEN mp
    ELSE LET cy == k \div size
             cx == k % size
             move_num == b[cy][cx]
         IN  IF move_num > 0
             THEN ProjectFrom([mp EXCEPT ![move_num] = <<cx, cy>>], b, size, k + 1)
             ELSE ProjectFrom(mp, b, size, k + 1)

\* move_positions as built by lines 197-202; an unfilled entry is Nothing.
Project(b, size) ==
    ProjectFrom([i \in 1..(size * size) |-> Nothing], b, size, 0)

\* The text of a QLineEdit: an integer literal, or text int() rejects.
NotAnInt == [isint |-> FALSE, val |-> 0]
IntText(v) == [isint |-> TRUE, val |-> v]
SizeTexts == {NotAnInt} \cup {IntText(v) : v \in {4, 5}}
RowTexts == {NotAnInt} \cup {IntText(v) : v \in {-1, 1, 2}}
ColTexts == {IntText(v) : v \in {2, 5}}

\* The generator when no call is in progress.
GenIdle ==
    /\ pc = "idle"
    /\ start_x = 0 /\ start_y = 0 /\ board_size = 0 /\ max_attempts = 0
    /\ KNIGHT_MOVES = KnightMoves0
    /\ attempt = 0 /\ board = <<>> /\ x = 0 /\ y = 0 /\ move_no = 0
    /\ result = Pending /\ dead_ends = 0 /\ shuffled = FALSE /\ trace = <<>>

GenLeft ==
    /\ pc' = "idle"
    /\ start_x' = 0 /\ start_y' = 0 /\ board_size' = 0 /\ max_attempts' = 0
    /\ KNIGHT_MOVES' = KnightMoves0
    /\ attempt' = 0 /\ board' = <<>> /\ x' = 0 /\ y' = 0 /\ move_no' = 0
    /\ result' = Pending /\ dead_ends' = 0 /\ shuffled' = FALSE /\ trace' = <<>>

\* KnightTourGUI.__init__ and init_ui, lines 110-173
GuiInit ==
    /\ gui_pc = "idle"
    /\ self_board_size = 5 /\ square_size = 60
    /\ self_board = BoardValue(<<>>) /\ move_positions = <<>>
    /\ current_move_index = 0 /\ is_paused = FALSE /\ timer_active = FALSE
    /\ board_widget = NoWidget /\ message_box = "" /\ gen_calls = 0
    /\ GenIdle
    /\ NoReplay
    /\ rng \in 0..(NumSeeds - 1)

\* Mutation of InputAccepted: the upper end of the column range is not tested.
InputAcceptedNoColumnLimit(size_t, row_t, col_t) ==
    /\ size_t.isint /\ size_t.val >= MinBoardSize
    /\ row_t.isint /\ col_t.isint
    /\ 0 <= row_t.val /\ row_t.val < size_t.val
    /\ 0 <= col_t.val

\* start_tour up to the call of line 190: the three fields are parsed and
\* checked (lines 176-186), then generate_knights_tour_nxn is called.
InputAccepted(size_t, row_t, col_t) ==
    /\ size_t.isint /\ size_t.val >= MinBoardSize
    /\ row_t.isint /\ col_t.isint
    /\ 0 <= row_t.val /\ row_t.val < size_t.val
    /\ 0 <= col_t.val /\ col_t.val < size_t.val

StartTour(size_t, row_t, col_t) ==
    /\ gui_pc = "idle"
    /\ IF InputAccepted(size_t, row_t, col_t)
       THEN /\ gen_calls < MaxTours
            /\ self_board_size' = size_t.val
            /\ square_size' = SquareSize(size_t.val)
            /\ Enter(col_t.val, row_t.val, size_t.val, DefaultMaxAttempts)
            /\ gen_calls' = gen_calls + 1
            /\ gui_pc' = "start_tour"
            /\ message_box' = ""
            /\ UNCHANGED <<self_board, move_positions, current_move_index,
                           is_paused, timer_active, board_widget>>
       ELSE /\ message_box' = "Input Error"
            /\ UNCHANGED <<genvars, gui_pc, self_board_size, square_size, self_board,
                           move_positions, current_move_index, is_paused,
                           timer_active, board_widget, gen_calls>>
    /\ UNCHANGED <<rng, replayvars>>

\* start_tour from the return of line 190 on, lines 190-220 (with
\* play_animation, called at line 220 when the widget exists).
FinishStartTour ==
    /\ gui_pc = "start_tour"
    /\ pc = "returned"
    /\ self_board' = result
    /\ IF ~Truthy(result)
       THEN /\ message_box' = "No Solution"
            /\ UNCHANGED <<move_positions, current_move_index, is_paused,
                           timer_active, board_widget>>
       ELSE LET mp == Project(result.board, self_board_size)
                start_pos == mp[1]
            IN  /\ move_positions' = mp
                /\ current_move_index' = 0
                /\ is_paused' = FALSE
                /\ board_widget' =
                      set_knight_position(
                          NewWidget(self_board_size, square_size, result.board),
                          start_pos[1], start_pos[2], Nothing, Nothing, Nothing)
                /\ timer_active' = TRUE
                /\ message_box' = ""
    /\ gui_pc' = "idle"
    /\ GenLeft
    /\ UNCHANGED <<self_board_size, square_size, gen_calls, rng, replayvars>>

\* Mutation of AnimateMoves: each tick consumes the head of move_positions.
AnimateMovesConsuming ==
    /\ gui_pc = "idle"
    /\ timer_active
    /\ ~is_paused
    /\ IF Len(move_positions) <= 1
       THEN /\ timer_active' = FALSE
            /\ message_box' = "Done"
            /\ UNCHANGED <<move_positions, board_widget>>
       ELSE /\ move_positions' = Tail(move_positions)
            /\ board_widget' =
                  set_knight_position(board_widget,
                      move_positions[2][1], move_positions[2][2],
                      Some(move_positions[1][1]), Some(move_positions[1][2]),
                      Some(current_move_index + 1))
            /\ message_box' = ""
            /\ UNCHANGED timer_active
    /\ current_move_index' = current_move_index + 1
    /\ current_move_index < Len(move_positions) + MaxOverrun
    /\ UNCHANGED <<genvars, rng, replayvars, gui_pc, self_board_size, square_size,
                   self_board, is_paused, gen_calls>>

\* Mutation of AnimateMoves: the knight is shown on the square the cursor has
\* just left (the index not yet advanced when the position is read).
AnimateMovesShowsPrevious ==
    /\ gui_pc = "idle"
    /\ timer_active
    /\ current_move_index < Len(move_positions) + MaxOverrun
    /\ IF is_paused
       THEN /\ message_box' = ""
            /\ UNCHANGED <<current_move_index, timer_active, board_widget>>
       ELSE LET index == current_move_index + 1
            IN  /\ current_move_index' = index
                /\ IF index >= Len(move_positions)
                   THEN /\ timer_active' = FALSE
                        /\ message_box' = "Done"
                        /\ UNCHANGED board_widget
                   ELSE LET current == move_positions[index]
                            prev == move_positions[index]
                        IN  /\ board_widget' =
                                  set_knight_position(board_widget,
                                      current[1], current[2],
                                      Some(prev[1]), Some(prev[2]), Some(index))
                            /\ message_box' = ""
                            /\ UNCHANGED timer_active
    /\ UNCHANGED <<genvars, rng, replayvars, gui_pc, self_board_size, square_size,
                   self_board, move_positions, is_paused, gen_calls>>

\* Mutation of AnimateMoves: the timer is left running when the end of the
\* sequence is reached.
AnimateMovesNeverStops ==
    /\ gui_pc = "idle"
    /\ timer_active
    /\ current_move_index < Len(move_positions) + MaxOverrun
    /\ IF is_paused
       THEN /\ message_box' = ""
            /\ UNCHANGED <<current_move_index, timer_active, board_widget>>
       ELSE LET index == current_move_index + 1
            IN  /\ current_move_index' = index
                /\ IF index >= Len(move_positions)
                   THEN /\ message_box' = "Done"
                        /\ UNCHANGED <<timer_active, board_widget>>
                   ELSE LET current == move_positions[index + 1]
                            prev == move_positions[index]
                        IN  /\ board_widget' =
                                  set_knight_position(board_widget,
                                      current[1], current[2],
                                      Some(prev[1]), Some(prev[2]), Some(index))
                            /\ message_box' = ""
                            /\ UNCHANGED timer_active
    /\ UNCHANGED <<genvars, rng, replayvars, gui_pc, self_board_size, square_size,
                   self_board, move_positions, is_paused, gen_calls>>

\* Mutation of AnimateMoves: the test of the pause flag is inverted, the tick
\* returns at once unless the animation is paused.
AnimateMovesUnlessRunning ==
    /\ gui_pc = "idle"
    /\ timer_active
    /\ current_move_index < Len(move_positions) + MaxOverrun
    /\ IF ~is_paused
       THEN /\ message_box' = ""
            /\ UNCHANGED <<current_move_index, timer_active, board_widget>>
       ELSE LET index == current_move_index + 1
            IN  /\ current_move_index' = index
                /\ IF index >= Len(move_positions)
                   THEN /\ timer_active' = FALSE
                        /\ message_box' = "Done"
                        /\ UNCHANGED board_widget
                   ELSE LET current == move_positions[index + 1]
                            prev == move_positions[index]
                        IN  /\ board_widget' =
                                  set_knight_position(board_widget,
                                      current[1], current[2],
                                      Some(prev[1]), Some(prev[2]), Some(index))
                            /\ message_box' = ""
                            /\ UNCHANGED timer_active
    /\ UNCHANGED <<genvars, rng, replayvars, gui_pc, self_board_size, square_size,
                   self_board, move_positions, is_paused, gen_calls>>

\* animate_moves, lines 222-236: the timer's timeout.  The timer fires only
\* while it is active.
AnimateMoves ==
    /\ gui_pc = "idle"
    /\ timer_active
    /\ current_move_index < Len(move_positions) + MaxOverrun
    /\ IF is_paused
       THEN /\ message_box' = ""
            /\ UNCHANGED <<current_move_index, timer_active, board_widget>>
       ELSE LET index == current_move_index + 1
            IN  /\ current_move_index' = index
                /\ IF index >= Len(move_positions)
                   THEN /\ timer_active' = FALSE
                        /\ message_box' = "Done"
                        /\ UNCHANGED board_widget
                   ELSE LET current == move_positions[index + 1]
                            prev == move_positions[index]
                        IN  /\ board_widget' =
                                  set_knight_position(board_widget,
                                      current[1], current[2],
                                      Some(prev[1]), Some(prev[2]), Some(index))
                            /\ message_box' = ""
                            /\ UNCHANGED timer_active
    /\ UNCHANGED <<genvars, rng, replayvars, gui_pc, self_board_size, square_size,
                   self_board, move_positions, is_paused, gen_calls>>

\* play_animation, lines 238-243
PlayAnimation ==
    /\ gui_pc = "idle"
    /\ IF board_widget = NoWidget
       THEN UNCHANGED <<is_paused, timer_active>>
       ELSE /\ is_paused' = FALSE
            /\ timer_active' = TRUE
    /\ message_box' = ""
    /\ UNCHANGED <<genvars, rng, replayvars, gui_pc, self_board_size, square_size,
                   self_board, move_positions, current_move_index, board_widget,
                   gen_calls>>

\* pause_animation, lines 245-248
PauseAnimation ==
    /\ gui_pc = "idle"
    /\ is_paused' = TRUE
    /\ timer_active' = FALSE
    /\ message_box' = ""
    /\ UNCHANGED <<genvars, rng, replayvars, gui_pc, self_board_size, square_size,
                   self_board, move_positions, current_move_index, board_widget,
                   gen_calls>>

\* reset_animation, lines 250-257 (with pause_animation, called at line 257)
ResetAnimation ==
    /\ gui_pc = "idle"
    /\ IF board_widget = NoWidget
       THEN UNCHANGED <<current_move_index, board_widget, is_paused, timer_active>>
       ELSE LET start_pos == move_positions[1]
            IN  /\ current_move_index' = 0
                /\ board_widget' =
                      set_knight_position(
                          [board_widget EXCEPT !.move_numbers = NoDict],
                          start_pos[1], start_pos[2], Nothing, Nothing, Nothing)
                /\ is_paused' = TRUE
                /\ timer_active' = FALSE
    /\ message_box' = ""
    /\ UNCHANGED <<genvars, rng, replayvars, gui_pc, self_board_size, square_size,
                   self_board, move_positions, gen_calls>>

StartTourClicked ==
    \E size_t \in SizeTexts : \E row_t \in RowTexts : \E col_t \in ColTexts :
        StartTour(size_t, row_t, col_t)

GuiNext ==
    \/ StartTourClicked
    \/ BeginAttempt
    \/ SeededMoveStep
    \/ ReturnBoard
    \/ ReturnNone
    \/ FinishStartTour
    \/ AnimateMoves
    \/ PlayAnimation
    \/ PauseAnimation
    \/ ResetAnimation

GuiSpec == GuiInit /\ [][GuiNext]_vars

\* GuiFairSpec: the window with the timer's scheduling.  An active QTimer
\* keeps delivering its timeout to animate_moves whenever the event loop is
\* idle.  Clicks are up to the user: no fairness.
GuiFairness == WF_vars(AnimateMoves)

GuiFairSpec == GuiInit /\ [][GuiNext]_vars /\ GuiFairness

----------------------------------------------------------------------------
(* Properties of generate_knights_tour_nxn, checked under Spec *)

N2 == board_size * board_size
Cells == (0..(board_size - 1)) \X (0..(board_size - 1))     \* <<x, y>>
ValidStart ==
    /\ 0 <= start_x /\ start_x < board_size
    /\ 0 <= start_y /\ start_y < board_size
Terminated == pc \in {"returned", "raised"}
ReturnedBoard == pc = "returned" /\ result.kind = "Board"

\* The eight knight displacements, written independently of KNIGHT_MOVES.
KnightOffsets ==
    {d \in ((-2)..2) \X ((-2)..2) :
        \/ d[1] * d[1] = 1 /\ d[2] * d[2] = 4
        \/ d[1] * d[1] = 4 /\ d[2] * d[2] = 1}

\* C1: for an in-range start, every cell of a returned board holds a value
\* in 1..board_size^2 and no two cells hold the same value: the cells are a
\* permutation of 1..board_size^2 and none is left UNVISITED.
C1_Permutation ==
    (ReturnedBoard /\ ValidStart) =>
        /\ \A c \in Cells : result.board[c[2]][c[1]] \in 1..N2
        /\ \A c, d \in Cells :
              result.board[c[2]][c[1]] = result.board[d[2]][d[1]] => c = d

C1_Witness == ReturnedBoard /\ ValidStart /\ board_size = 5 /\ shuffled

\* C2: in a returned board (in-range start) the cells holding k and k+1 are
\* one knight move apart, for every k in 1..board_size^2 - 1.
C2_MoveLegality ==
    (ReturnedBoard /\ ValidStart) =>
        \A k \in 1..(N2 - 1) :
            \E c, d \in Cells :
                /\ result.board[c[2]][c[1]] = k
                /\ result.board[d[2]][d[1]] = k + 1
                /\ <<d[1] - c[1], d[2] - c[2]>> \in KnightOffsets

C2_Witness ==
    /\ ReturnedBoard /\ ValidStart /\ board_size = 5
    /\ \E c \in Cells : result.board[c[2]][c[1]] = N2

\* C3: a returned board holds 1 at the start coordinate, board[start_y][start_x].
C3_StartFidelity ==
    (ReturnedBoard /\ ValidStart) => result.board[start_y][start_x] = 1

C3_Witness ==
    /\ ReturnedBoard /\ ValidStart /\ board_size = 5
    /\ <<start_x, start_y>> # <<x, y>>

\* C4: a start outside [0, board_size) on either axis is rejected before any
\* attempt: no attempt is started, no cell is written, no move is searched,
\* and the call ends neither with a board nor with None.  (The code has no
\* such check; this is the statement the code violates.)
C4_InvalidStartRejected ==
    ~ValidStart =>
        /\ attempt = 0
        /\ board = <<>>
        /\ ~shuffled
        /\ pc # "returned"

\* C5: at most max_attempts attempts are started, an attempt places at most
\* board_size^2 - 1 moves, and the call terminates: every step lowers Rank,
\* a natural number, and until the call has ended one of the two loops has
\* an iteration to run or a return to make.
Placed ==
    IF board = <<>> THEN 0
    ELSE Cardinality({c \in Cells : board[c[2]][c[1]] >= 2})

Rank ==
    CASE Terminated -> 0
      [] pc = "attempt" -> 1 + (max_attempts - attempt) * (N2 + 2)
      [] pc = "move" -> 2 + (max_attempts - attempt) * (N2 + 2) + (N2 + 1 - move_no)

C5_BoundedTermination ==
    /\ [](attempt <= max_attempts)
    /\ [](Placed <= N2 - 1)
    /\ [](Rank \in Nat)
    /\ [](~Terminated =>
            AttemptLoopRunning \/ AttemptLoopDone \/ InnerLoopRunning \/ InnerLoopDone)
    /\ [][Rank' < Rank]_vars

C5_Witness ==
    /\ pc = "returned" /\ result = None /\ ValidStart
    /\ board_size = 5 /\ max_attempts = MaxAttempts /\ attempt = MaxAttempts

\* C6: the call returns None exactly when max_attempts attempts were made and
\* every one of them ended in a dead end; otherwise it returns the board of
\* the attempt that placed all its moves, every earlier attempt having ended
\* in a dead end.
C6_FailureIffAllDeadEnd ==
    pc = "returned" =>
        /\ result = None <=> (attempt = max_attempts /\ dead_ends = max_attempts)
        /\ result # None =>
              /\ result = BoardValue(board)
              /\ \A c \in Cells : board[c[2]][c[1]] # UNVISITED
              /\ dead_ends = attempt - 1

C6_Witness ==
    /\ ReturnedBoard /\ ValidStart /\ board_size = 5
    /\ dead_ends >= 1

\* C7: generate(0, 0, 1, m) with m >= 1 returns the board [[1]] from its
\* first attempt, without a shuffle and without attempting a move.
C7_TrivialBoard ==
    (board_size = 1 /\ start_x = 0 /\ start_y = 0 /\ max_attempts >= 1) =>
        /\ ~shuffled
        /\ pc # "raised"
        /\ ~InnerLoopRunning
        /\ pc = "returned" =>
              /\ result = BoardValue([r \in {0} |-> [c \in {0} |-> 1]])
              /\ attempt = 1
              /\ dead_ends = 0

C7_Witness ==
    /\ board_size = 1 /\ start_x = 0 /\ start_y = 0 /\ max_attempts >= 1
    /\ pc = "returned" /\ result.kind = "Board"

\* The search, stated without the code's helpers.  Unvisited(c, b): c is a
\* square of the board that b leaves unvisited.  Destinations(p, b): the
\* squares a knight on p can go to.  Degree(c, b): the onward-degree of c.
Unvisited(c, b) == c \in Cells /\ b[c[2]][c[1]] = UNVISITED
Destinations(p, b) ==
    {c \in Cells : <<c[1] - p[1], c[2] - p[2]>> \in KnightOffsets /\ Unvisited(c, b)}
Degree(c, b) == Cardinality(Destinations(c, b))
MinDegree(p, b) ==
    CHOOSE d \in 0..8 :
        /\ \E c \in Destinations(p, b) : Degree(c, b) = d
        /\ \A c \in Destinations(p, b) : Degree(c, b) >= d
\* The position in the offset list moves of the offset that leads from p to c.
OffsetIndex(moves, p, c) ==
    CHOOSE i \in 1..Len(moves) : moves[i] = <<c[1] - p[1], c[2] - p[2]>>

MovePlaced == pc = "move" /\ pc' = "move" /\ move_no' = move_no + 1
AttemptAbandoned == pc = "move" /\ pc' = "attempt"

\* C12: every move placed goes to a valid destination of the current square
\* (a knight move away, on the board, unvisited before the move) whose
\* onward-degree on the board as it is before the move is the least among
\* the valid destinations, and which comes first, in the offset order of that
\* move's shuffle, among the destinations of that least degree.
C12_WarnsdorffSelection ==
    [][MovePlaced =>
          LET p == <<x, y>>
              c == <<x', y'>>
              moves == KNIGHT_MOVES'
          IN  /\ c \in Destinations(p, board)
              /\ \A d \in Destinations(p, board) :
                    /\ Degree(c, board) <= Degree(d, board)
                    /\ Degree(d, board) = Degree(c, board) =>
                          OffsetIndex(moves, p, c) <= OffsetIndex(moves, p, d)
              /\ board'[c[2]][c[1]] = move_no]_vars

\* The board and square an attempt was on before its latest move.
BoardBefore == [board EXCEPT ![y][x] = UNVISITED]
SquareBefore ==
    IF move_no = 3 THEN <<start_x, start_y>>
    ELSE CHOOSE c \in Cells : board[c[2]][c[1]] = move_no - 2

\* A move was placed where two destinations had the least degree and a
\* destination of higher degree came before them in the shuffled order.
C12_Witness ==
    /\ pc = "move" /\ move_no >= 3 /\ board_size = 5 /\ ValidStart
    /\ LET p == SquareBefore
           b == BoardBefore
           least == {c \in Destinations(p, b) : Degree(c, b) = MinDegree(p, b)}
       IN  /\ Cardinality(least) >= 2
           /\ \E d \in Destinations(p, b) \ least :
                 OffsetIndex(KNIGHT_MOVES, p, d) < OffsetIndex(KNIGHT_MOVES, p, <<x, y>>)
           /\ KNIGHT_MOVES # KnightMoves0

\* C13: an iteration of the inner loop abandons the attempt exactly when the
\* current square has no valid destination.  When it has one, a move is
\* placed, whatever the destination's degree and coordinates; when it has
\* none, the board is left as it is, nothing is returned by that step, and a
\* board with an unvisited cell is never returned: once an attempt is
\* abandoned the call goes on to a new attempt or returns None.
C13_DeadEndAbandonment ==
    /\ [][InnerLoopRunning =>
            /\ AttemptAbandoned <=> Destinations(<<x, y>>, board) = {}
            /\ MovePlaced <=> Destinations(<<x, y>>, board) # {}
            /\ AttemptAbandoned =>
                  /\ board' = board /\ result' = result
                  /\ dead_ends' = dead_ends + 1]_vars
    /\ [](ReturnedBoard => \A c \in Cells : ~Unvisited(c, result.board))
    /\ [][(pc = "attempt" /\ pc' = "returned") =>
            result' = None /\ board' = board]_vars

\* An attempt that had placed a move on (0, 0) was abandoned on a square
\* with no valid destination, cells of its board being still unvisited.
C13_Witness ==
    /\ pc = "attempt" /\ dead_ends >= 1 /\ board_size = 5 /\ ValidStart
    /\ board[0][0] >= 2
    /\ Destinations(<<x, y>>, board) = {}
    /\ \E c \in Cells : Unvisited(c, board)

\* C14: once an attempt has placed all board_size^2 moves the very next step
\* returns that attempt's board, without starting an attempt or shuffling;
\* nothing of the call changes after the return; and the attempts made are
\* the dead-ended ones plus the successful one, the last.
AllMovesPlaced == pc = "move" /\ move_no = N2 + 1

C14_EarlyReturn ==
    /\ [][AllMovesPlaced =>
            /\ pc' = "returned" /\ result' = BoardValue(board)
            /\ UNCHANGED <<board, attempt, KNIGHT_MOVES, rng, dead_ends, x, y>>]_vars
    /\ [][pc = "returned" => UNCHANGED genvars]_vars
    /\ [](AllMovesPlaced \/ ReturnedBoard =>
            /\ attempt = dead_ends + 1
            /\ \A c \in Cells : ~Unvisited(c, board))
    /\ [](ReturnedBoard => result.board = board)

C14_Witness ==
    /\ ReturnedBoard /\ ValidStart /\ board_size = 5
    /\ attempt < max_attempts
    /\ shuffled

\* The state an attempt begins in: it has marked its start and placed no
\* move yet.  StartCell: the cell board[start_y][start_x] names (Python counts
\* an index in -n..-1 from the end).
AttemptBegun == pc = "move" /\ move_no = 2
StartCell == <<start_x % board_size, start_y % board_size>>
BoardAtBegin ==
    [r \in 0..(board_size - 1) |->
        [c \in 0..(board_size - 1) |-> IF <<c, r>> = StartCell THEN 1 ELSE UNVISITED]]

\* C15, as claimed: every attempt begins in the state the first attempt began
\* in: the board unvisited but for the start, the current position the
\* start, and the offset list in the order it had then (that of lines 14-15).
C15_SameStateEveryAttempt ==
    AttemptBegun =>
        /\ board = BoardAtBegin
        /\ <<x, y>> = <<start_x, start_y>>
        /\ KNIGHT_MOVES = KnightMoves0

\* C15, amended: every attempt begins with a board unvisited but for the
\* start and with the current position the start, whatever earlier attempts
\* left; the offset list holds the same eight offsets, in the order the
\* latest shuffle left them (that of lines 14-15 for the first attempt only),
\* and beginning an attempt does not touch it.
C15_FreshBoardEveryAttempt ==
    /\ [](AttemptBegun =>
            /\ board = BoardAtBegin
            /\ <<x, y>> = <<start_x, start_y>>
            /\ attempt = 1 => KNIGHT_MOVES = KnightMoves0)
    /\ [](/\ Len(KNIGHT_MOVES) = 8
          /\ {KNIGHT_MOVES[i] : i \in 1..8} = KnightOffsets)
    /\ [][AttemptLoopRunning => UNCHANGED KNIGHT_MOVES]_vars

\* A second attempt begins after the first has written cells and left the
\* offset list in another order.
C15_Witness ==
    /\ AttemptBegun /\ attempt = 2 /\ dead_ends = 1
    /\ board_size = 5 /\ ValidStart
    /\ KNIGHT_MOVES # KnightMoves0

\* An attempt has a board: one was begun, and its latest move is LastMove.
AttemptHasBoard == board # <<>> /\ pc # "raised"
LastMove == move_no - 1
CellsHolding(k) == {c \in Cells : board[c[2]][c[1]] = k}

\* C17: within an attempt (start on the board), once move m is placed the
\* visited cells are exactly m, the values 1..m are held by one cell each,
\* every other cell is UNVISITED, the current position is the cell holding
\* m, and a step of the attempt never changes a cell that holds a move number.
C17_AttemptInvariant ==
    /\ []((AttemptHasBoard /\ ValidStart) =>
            /\ LastMove \in 1..N2
            /\ Cardinality({c \in Cells : ~Unvisited(c, board)}) = LastMove
            /\ \A k \in 1..LastMove : Cardinality(CellsHolding(k)) = 1
            /\ \A c \in Cells :
                  board[c[2]][c[1]] \in {UNVISITED} \cup (1..LastMove)
            /\ board[y][x] = LastMove)
    /\ [][(pc = "move" /\ ValidStart) =>
            \A c \in Cells :
                ~Unvisited(c, board) => board'[c[2]][c[1]] = board[c[2]][c[1]]]_vars

C17_Witness ==
    /\ pc = "move" /\ board_size = 5 /\ ValidStart
    /\ attempt = 2 /\ LastMove = 13
    /\ x # y /\ board[y][x] = 13

----------------------------------------------------------------------------
(* Properties checked under SeededSpec *)

IsPrefix(a, b) == Len(a) <= Len(b) /\ \A i \in 1..Len(a) : a[i] = b[i]

\* C8: the second of two calls with the same arguments, made after seeding
\* the random source as before the first, places the same moves in the same
\* attempts at every step and ends as the first did: the same board, or None
\* both times.
C8_Reproducible ==
    run = 2 =>
        /\ IsPrefix(trace, first.trace)
        /\ pc \in {"returned", "raised"} =>
              /\ pc = first.pc
              /\ result = first.result
              /\ trace = first.trace

C8_Witness ==
    /\ run = 2 /\ pc = "returned" /\ result.kind = "Board"
    /\ board_size = 5 /\ Len(trace) = 24
    /\ KNIGHT_MOVES # KnightMoves0

----------------------------------------------------------------------------
(* Properties of the window, checked under GuiSpec *)

\* The side of a board value b (its rows are indexed from 0).
SideOf(b) == Cardinality(DOMAIN b)

\* C9: once start_tour has stored a board returned by the generator,
\* move_positions has N^2 entries, none unfilled, and its entry for move k
\* (Python index k - 1) is the <<x, y>> with board[y][x] = k.
C9_Projection ==
    (gui_pc = "idle" /\ Truthy(self_board)) =>
        LET n == SideOf(self_board.board)
        IN  /\ Len(move_positions) = n * n
            /\ \A k \in 1..(n * n) :
                  /\ move_positions[k] # Nothing
                  /\ self_board.board[move_positions[k][2]][move_positions[k][1]] = k
            /\ \A cy, cx \in 0..(n - 1) :
                  move_positions[self_board.board[cy][cx]] = <<cx, cy>>

C9_Witness ==
    /\ gui_pc = "idle" /\ Truthy(self_board)
    /\ Len(move_positions) = 25
    /\ move_positions[1] = <<2, 2>>
    /\ move_positions[25][1] # move_positions[25][2]

\* C10: Play, Pause, Reset and the timer's tick never call the generator and
\* leave the board and the move sequence as they are: such a step changes at
\* most the cursor, the paused flag, the timer, the message shown and the
\* widget's knight position and trail.
ControlStep == PlayAnimation \/ PauseAnimation \/ ResetAnimation \/ AnimateMoves

WidgetData(w) ==
    IF w = NoWidget THEN <<>> ELSE <<w.board_size, w.square_size, w.board_data>>

C10_ControlsFrame ==
    [][ControlStep =>
          /\ UNCHANGED <<self_board, move_positions, self_board_size, square_size>>
          /\ UNCHANGED <<gen_calls, genvars, rng, gui_pc>>
          /\ board_widget'.kind = board_widget.kind
          /\ WidgetData(board_widget') = WidgetData(board_widget)]_vars

C10_Witness ==
    /\ gui_pc = "idle" /\ Truthy(self_board)
    /\ is_paused /\ ~timer_active
    /\ current_move_index >= 2
    /\ board_widget.move_numbers # NoDict

\* C11: a Start Tour click either enters the generator, and then with
\* board_size >= 5, the start column and row within [0, size) and the default
\* attempt budget, or shows "Input Error" and leaves the generator uncalled
\* and the board, the move sequence, the cursor and the board widget as they
\* were; while the generator runs for the window its arguments satisfy the
\* same conditions.
GenerateEntered == pc = "idle" /\ pc' = "attempt"

C11_InputValidated ==
    /\ [][StartTourClicked =>
            IF GenerateEntered
            THEN /\ board_size' >= 5
                 /\ 0 <= start_x' /\ start_x' < board_size'
                 /\ 0 <= start_y' /\ start_y' < board_size'
                 /\ max_attempts' = 100
                 /\ self_board_size' = board_size'
                 /\ gen_calls' = gen_calls + 1
                 /\ message_box' # "Input Error"
            ELSE /\ message_box' = "Input Error"
                 /\ UNCHANGED <<genvars, gen_calls, rng>>
                 /\ UNCHANGED <<self_board, move_positions, current_move_index,
                                board_widget, self_board_size, square_size,
                                is_paused, timer_active>>]_vars
    /\ [](gui_pc = "start_tour" => board_size >= 5 /\ ValidStart)
    /\ [][GenerateEntered => StartTourClicked]_vars

C11_Witness ==
    /\ message_box = "Input Error"
    /\ gen_calls = 1 /\ Truthy(self_board)
    /\ board_widget # NoWidget /\ current_move_index >= 1

\* The tour shown: the window has a board widget (a start_tour succeeded) and
\* no start_tour is running.
TourShown == gui_pc = "idle" /\ board_widget # NoWidget
NumSquares == Len(move_positions)
TourStarted == gui_pc = "start_tour" /\ gui_pc' = "idle" /\ Truthy(self_board')
Tick == AnimateMoves /\ ~is_paused

\* C16: a successful start_tour shows the knight on move_positions[0] with
\* the cursor at 0; a tick that is not paused advances the cursor by exactly
\* one and, when the new cursor i is below N^2, shows the knight on
\* move_positions[i]; so the knight is always on the square the cursor names
\* (on the last square once the cursor has passed the end).
C16_AnimationOrder ==
    /\ [][TourStarted =>
            /\ current_move_index' = 0
            /\ board_widget'.current_pos = move_positions'[1]]_vars
    /\ [][Tick =>
            /\ current_move_index' = current_move_index + 1
            /\ current_move_index' < NumSquares =>
                  board_widget'.current_pos = move_positions[current_move_index' + 1]]_vars
    /\ [](TourShown =>
            board_widget.current_pos =
                IF current_move_index < NumSquares
                THEN move_positions[current_move_index + 1]
                ELSE move_positions[NumSquares])

C16_Witness ==
    /\ TourShown /\ timer_active /\ ~is_paused
    /\ current_move_index = NumSquares - 1
    /\ board_widget.current_pos = move_positions[NumSquares]
    /\ board_widget.current_pos # move_positions[1]

\* C18, as claimed: once a tour is shown the cursor stays within [0, N^2].
C18_CursorWithinSequence ==
    TourShown => current_move_index \in 0..NumSquares

\* C18, amended: once a tour is shown the cursor never goes below 0 and only
\* a tick raises it, by one; the tick that takes it to N^2 or beyond stops
\* the timer and reads nothing, so the cursor passes N^2 only when Play
\* starts the timer again after the end; a tick that reads move_positions
\* reads it at the new cursor and the one before, both within [0, N^2 - 1],
\* and Reset reads index 0 of a sequence that is not empty.
C18_CursorAndReads ==
    /\ [](TourShown => current_move_index >= 0 /\ NumSquares >= 1)
    /\ [][(TourShown /\ current_move_index' > current_move_index) =>
            Tick /\ current_move_index' = current_move_index + 1]_vars
    /\ [][(Tick /\ current_move_index' >= NumSquares) =>
            ~timer_active' /\ board_widget' = board_widget]_vars
    /\ [][(Tick /\ current_move_index' < NumSquares) =>
            /\ current_move_index' \in 0..(NumSquares - 1)
            /\ current_move_index' - 1 \in 0..(NumSquares - 1)]_vars

\* Play was pressed after the end of the animation and the next tick took
\* the cursor past N^2, announcing the end again.
C18_Witness ==
    /\ TourShown /\ ~timer_active /\ ~is_paused
    /\ current_move_index = NumSquares + 1
    /\ message_box = "Done"

\* The index (from 0) in move_positions of the square the knight is shown on.
KnightIndex ==
    IF current_move_index < NumSquares THEN current_move_index ELSE NumSquares - 1

\* C19: whenever a tour is shown, every square of the widget's trail
\* (move_numbers) is labelled with its own move number in the board of that
\* tour, the labelled squares are exactly the squares of move_positions
\* before the knight's square, and Reset empties the trail and puts the
\* knight on move_positions[0] with the cursor at 0.
C19_TrailLabels ==
    /\ [](TourShown =>
            LET w == board_widget
            IN  /\ DOMAIN w.move_numbers = {move_positions[k] : k \in 1..KnightIndex}
                /\ \A sq \in DOMAIN w.move_numbers :
                      w.move_numbers[sq] = w.board_data[sq[2]][sq[1]]
                /\ Truthy(self_board) => w.board_data = self_board.board)
    /\ [][(ResetAnimation /\ TourShown) =>
            /\ board_widget'.move_numbers = NoDict
            /\ board_widget'.current_pos = move_positions[1]
            /\ current_move_index' = 0]_vars

C19_Witness ==
    /\ TourShown /\ message_box = "Done"
    /\ current_move_index = NumSquares
    /\ Cardinality(DOMAIN board_widget.move_numbers) = NumSquares - 1
    /\ board_widget.move_numbers[move_positions[NumSquares - 1]] = NumSquares - 1

----------------------------------------------------------------------------
(* Properties of the window, checked under GuiFairSpec *)

\* The animation is running short of its end; it has been completed.
Animating ==
    /\ TourShown /\ timer_active /\ ~is_paused
    /\ current_move_index < NumSquares
Completed ==
    /\ TourShown /\ ~timer_active /\ message_box = "Done"
    /\ current_move_index = NumSquares
    /\ board_widget.current_pos = move_positions[NumSquares]

\* C20: with ticks delivered while the timer is active, a running animation
\* leads to its completion (the knight on the last square of move_positions,
\* the timer stopped, "Done" announced) unless Pause or Reset is pressed or
\* Start Tour is clicked again (which, accepted, puts another start_tour in
\* the place of this one); while paused the timer is stopped and the cursor
\* does not advance.
C20_AnimationCompletes ==
    /\ Animating ~> (Completed \/ is_paused \/ gui_pc = "start_tour")
    /\ [](is_paused => ~timer_active)
    /\ [][is_paused => current_move_index' <= current_move_index]_vars

C20_Witness ==
    /\ Completed /\ gen_calls = 1 /\ ~is_paused
    /\ board_widget.move_numbers # NoDict

====
